---- MODULE Spec2Model ----
(***************************************************************************)
(* Model of cate.ops.coregistration (src/cate/ops/coregistration.py).     *)
(*                                                                         *)
(* Numbers.  Grid coordinates are degrees.  The model uses integer         *)
(* coordinates; the code halves pixel sizes (step / 2), so every quantity  *)
(* that the code derives from a half pixel is kept DOUBLED in the model    *)
(* (names ending in 2): minimum2 = 2 * minimum.  "x % px == 0" in the code *)
(* is "(2x) % (2px) = 0" here.  The arithmetic is exact, as it is in the   *)
(* code for coordinates that are binary fractions.  A pixel size of 0      *)
(* makes numpy's % yield nan, which compares unequal to 0.                 *)
(*                                                                         *)
(* Sequences are 1-based: array[0] is a[1], array[-1] is a[Len(a)].        *)
(***************************************************************************)
EXTENDS Integers, Sequences, FiniteSets, TLC

VARIABLES
    pc,            \* position of the call in progress
    ds_master,     \* coregister: master dataset [lat, lon]
    ds_slave,      \* coregister: slave dataset [lat, lon, ntime, data_vars, attrs]
    method_us,     \* coregister: upsampling method argument (NoArg when omitted)
    method_ds,     \* coregister: downsampling method argument (NoArg when omitted)
    grid_idx,      \* coregister: index of the grid being validated (loop of line 94)
    var_idx,       \* index of the slave variable being validated / resampled
    time_idx,      \* index of the time slice being resampled
    checks,        \* validation checks completed so far, in order
    intersection,  \* [lat, lon]: intersection bounds found by _resample_dataset
    target,        \* [lat, lon]: master axes subset to the intersection
    codes,         \* [us, ds]: method codes looked up at line 129
    kernel_calls,  \* invocations of resampling.resample_2d, in order
    temp_array,    \* resampled slices of the variable in progress (line 232)
    retvars,       \* variables resampled so far (Dataset.apply in progress)
    result,        \* <<dataset>> returned by coregister, <<>> while there is none
    error,         \* error raised by the call, NoError while there is none
    spans,         \* progress spans of the monitor, in the order they were started
    cancel,        \* cancellation request on the monitor: [requested, at]
    fi,            \* direct call of _find_intersection: arguments and outcome
    gv,            \* direct call of the grid checks: arguments and outcome
    rp             \* call of FileSetDataSource.resolve_paths: arguments and outcome

vars == <<pc, ds_master, ds_slave, method_us, method_ds, grid_idx, var_idx,
          time_idx, checks, intersection, target, codes, kernel_calls,
          temp_array, retvars, result, error, spans, cancel, fi, gv, rp>>

NoArg == "NoArg"

(***************************************************************************)
(* Bounds of the model.                                                    *)
(***************************************************************************)
MaxCoordIdx == 6     \* coordinates are CoordUnit * k, k in -MaxCoordIdx..MaxCoordIdx
MaxStepIdx == 3      \* axis steps are 2 * CoordUnit * j, j in -MaxStepIdx..MaxStepIdx
MaxLen == 3          \* longest generated axis
MaxVars == 2         \* most data variables of the slave dataset
MaxTime == 2         \* most time steps of the slave dataset
MaxDay == 3          \* resolve_paths: days are numbered 0..MaxDay

Abs(x) == IF x < 0 THEN -x ELSE x
Max(a, b) == IF a >= b THEN a ELSE b
Min(a, b) == IF a <= b THEN a ELSE b

(***************************************************************************)
(* Grid checks.                                                            *)
(***************************************************************************)

\* step = abs(array[1] - array[0])
PixelSize(array) == Abs(array[2] - array[1])

\* _is_equidistant: every absolute consecutive difference equals the first
is_equidistant_mut(array) == Len(array) >= 2

is_equidistant(array) ==
    LET step == PixelSize(array)
    IN  \A i \in 1..(Len(array) - 1) : Abs(array[i + 1] - array[i]) = step

\* x % px == 0 for the doubled x2 = 2x; nan (px = 0) is not 0
ModIsZero(x2, px) == px # 0 /\ x2 % (2 * px) = 0

\* _is_pixel_registered: ((array[0] - step / 2) - origin) % step == 0
is_pixel_registered_mut(array, origin) ==
    LET step == PixelSize(array)
    IN  ModIsZero(2 * array[1] - 2 * origin, step)

is_pixel_registered(array, origin) ==
    LET step == PixelSize(array)
    IN  ModIsZero((2 * array[1] - step) - 2 * origin, step)

\* _within_bounds: array[0] >= low_bound and array[-1] <= abs(low_bound)
within_bounds_mut(array, low_bound) == array[1] >= low_bound

within_bounds(array, low_bound) ==
    array[1] >= low_bound /\ array[Len(array)] <= Abs(low_bound)

\* _is_valid_array: 3 == len(dims) and 'time', 'lat', 'lon' in dims
is_valid_array_mut(dims) ==
    /\ \E i \in 1..Len(dims) : dims[i] = "time"
    /\ \E i \in 1..Len(dims) : dims[i] = "lat"
    /\ \E i \in 1..Len(dims) : dims[i] = "lon"

is_valid_array_mut2(dims) == 3 = Len(dims)

is_valid_array(dims) ==
    /\ 3 = Len(dims)
    /\ \E i \in 1..Len(dims) : dims[i] = "time"
    /\ \E i \in 1..Len(dims) : dims[i] = "lat"
    /\ \E i \in 1..Len(dims) : dims[i] = "lon"

(***************************************************************************)
(* _find_intersection.  Returns [ok |-> TRUE, min2, max2] (doubled bounds) *)
(* or IntersectionError for the ValueError of lines 307, 321, 330, 337.    *)
(***************************************************************************)
safety == 100

IntersectionError == [ok |-> FALSE, min2 |-> 0, max2 |-> 0]

\* finer = min(first_px_size, second_px_size)
finer_mut(first_px_size, second_px_size) == first_px_size

finer(first_px_size, second_px_size) == Min(first_px_size, second_px_size)

\* loop condition of lines 318-319 and 327-328 on the doubled offset
OffBoundary(offset2, first_px_size, second_px_size) ==
    /\ ~ModIsZero(offset2, first_px_size)
    /\ ~ModIsZero(offset2, second_px_size)

NotSnapped == [ok |-> FALSE, v2 |-> 0]

\* lines 317-324: the snapped minimum (doubled), NotSnapped when i reaches safety
RECURSIVE SnapMinimum(_, _, _, _, _)
SnapMinimum(minimum2, i, low, first_px_size, second_px_size) ==
    IF OffBoundary(minimum2 - 2 * low, first_px_size, second_px_size)
    THEN IF i = safety
         THEN NotSnapped
         ELSE SnapMinimum(minimum2 + 2 * finer(first_px_size, second_px_size),
                          i + 1, low, first_px_size, second_px_size)
    ELSE [ok |-> TRUE, v2 |-> minimum2]

\* lines 326-333: the snapped maximum (doubled), NotSnapped when i reaches safety
RECURSIVE SnapMaximum(_, _, _, _, _)
SnapMaximum(maximum2, i, high, first_px_size, second_px_size) ==
    IF OffBoundary(2 * high - maximum2, first_px_size, second_px_size)
    THEN IF i = safety
         THEN NotSnapped
         ELSE SnapMaximum(maximum2 - 2 * finer(first_px_size, second_px_size),
                          i + 1, high, first_px_size, second_px_size)
    ELSE [ok |-> TRUE, v2 |-> maximum2]

\* lines 317-324: the values that minimum takes, in order (doubled): the raw
\* minimum, then one value per pass of the loop body
RECURSIVE MinimumSteps(_, _, _, _, _)
MinimumSteps(minimum2, i, low, first_px_size, second_px_size) ==
    IF OffBoundary(minimum2 - 2 * low, first_px_size, second_px_size) /\ i # safety
    THEN <<minimum2>> \o
         MinimumSteps(minimum2 + 2 * finer(first_px_size, second_px_size),
                      i + 1, low, first_px_size, second_px_size)
    ELSE <<minimum2>>

\* lines 326-333: the values that maximum takes, in order (doubled)
RECURSIVE MaximumSteps(_, _, _, _, _)
MaximumSteps(maximum2, i, high, first_px_size, second_px_size) ==
    IF OffBoundary(2 * high - maximum2, first_px_size, second_px_size) /\ i # safety
    THEN <<maximum2>> \o
         MaximumSteps(maximum2 - 2 * finer(first_px_size, second_px_size),
                      i + 1, high, first_px_size, second_px_size)
    ELSE <<maximum2>>

\* line 306: delta < max(first_px_size, second_px_size), on doubled delta
NoOverlap_mut(delta2, first_px_size, second_px_size) ==
    delta2 < 2 * Min(first_px_size, second_px_size)

NoOverlap(delta2, first_px_size, second_px_size) ==
    delta2 < 2 * Max(first_px_size, second_px_size)

\* line 336: maximum <= minimum
Collapsed(minimum2, maximum2) == maximum2 <= minimum2

\* lines 300-303: the raw bounds
RawMinimum2_mut(first, second) ==
    Max(2 * first[1] - PixelSize(first), 2 * second[1] + PixelSize(second))

RawMinimum2(first, second) ==
    Max(2 * first[1] - PixelSize(first), 2 * second[1] - PixelSize(second))

RawMaximum2_mut(first, second) ==
    Max(2 * first[Len(first)] + PixelSize(first),
        2 * second[Len(second)] + PixelSize(second))

RawMaximum2(first, second) ==
    Min(2 * first[Len(first)] + PixelSize(first),
        2 * second[Len(second)] + PixelSize(second))

find_intersection(first, second, global_bounds) ==
    LET first_px_size == PixelSize(first)
        second_px_size == PixelSize(second)
        minimum2 == RawMinimum2(first, second)
        maximum2 == RawMaximum2(first, second)
    IN  IF NoOverlap(maximum2 - minimum2, first_px_size, second_px_size)
        THEN IntersectionError
        ELSE LET mn == SnapMinimum(minimum2, 0, global_bounds[1],
                                   first_px_size, second_px_size)
             IN  IF ~mn.ok
                 THEN IntersectionError
                 ELSE LET mx == SnapMaximum(maximum2, 0, global_bounds[2],
                                            first_px_size, second_px_size)
                      IN  IF ~mx.ok
                          THEN IntersectionError
                          ELSE IF Collapsed(mn.v2, mx.v2)
                               THEN IntersectionError
                               ELSE [ok |-> TRUE, min2 |-> mn.v2, max2 |-> mx.v2]

(***************************************************************************)
(* Inputs of the direct calls: generated axes.  Coordinates are multiples  *)
(* of 18 degrees, steps are multiples of 36 degrees (a pixel-registered    *)
(* axis with integer coordinates has an even pixel size).  An axis has a   *)
(* first step s and every later step is s or -s, so that it passes         *)
(* _is_equidistant whether or not it is monotonic; s = 0 is included.      *)
(***************************************************************************)
Coords == {18 * k : k \in (0 - MaxCoordIdx)..MaxCoordIdx}

Steps == {36 * j : j \in (0 - MaxStepIdx)..MaxStepIdx}

RECURSIVE AxesOfLen(_)
AxesOfLen(n) ==
    IF n = 2
    THEN {<<a, a + s>> : a \in Coords, s \in Steps}
    ELSE UNION {{Append(x, x[n - 1] + d) : d \in {x[2] - x[1], x[1] - x[2]}} :
                  x \in AxesOfLen(n - 1)}

InCoords(array) == \A i \in 1..Len(array) : array[i] \in Coords

Axes == {x \in UNION {AxesOfLen(n) : n \in 2..MaxLen} : InCoords(x)}

\* the global bounds of lines 263 and 266, the origins of lines 89-92
LatBounds == <<-90, 90>>
LonBounds == <<-180, 180>>
GlobalBounds == {LatBounds, LonBounds}

\* the three grid checks of lines 95-113 together
ValidGrid(array, origin) ==
    /\ within_bounds(array, origin)
    /\ is_equidistant(array)
    /\ is_pixel_registered(array, origin)

(***************************************************************************)
(* Idle values of the variables a specification does not use.              *)
(***************************************************************************)
NoError == [type |-> "None", kind |-> "", who |-> "", args |-> <<>>]
NoDataset == [lat |-> <<>>, lon |-> <<>>]
NoSlave == [lat |-> <<>>, lon |-> <<>>, ntime |-> 0, data_vars |-> <<>>, attrs |-> {}]
NoIntersection == [lat |-> IntersectionError, lon |-> IntersectionError]
NoCodes == [us |-> 0, ds |-> 0]
FiIdle == [first |-> <<>>, second |-> <<>>, global_bounds |-> <<0, 0>>,
           done |-> FALSE, ret |-> IntersectionError]
NoCancel == [requested |-> FALSE, at |-> 0]
GvIdle == [array |-> <<>>, origin |-> 0, idx |-> 0, value |-> 0, done |-> FALSE,
           checks |-> <<>>, perturbed |-> <<>>]

NoTime == [kind |-> "None", day |-> 0, hour |-> 0]
RpIdle == [self |-> [fileset_info |-> [present |-> FALSE, start_time |-> NoTime,
                                       end_time |-> NoTime],
                     file_pattern |-> {}],
           first_time |-> NoTime, last_time |-> NoTime, done |-> FALSE,
           ret |-> [type |-> "None", line |-> 0, paths |-> <<>>]]

CoregisterIdle ==
    /\ ds_master = NoDataset
    /\ ds_slave = NoSlave
    /\ method_us = NoArg
    /\ method_ds = NoArg
    /\ grid_idx = 0
    /\ var_idx = 0
    /\ time_idx = 0
    /\ checks = <<>>
    /\ intersection = NoIntersection
    /\ target = NoDataset
    /\ codes = NoCodes
    /\ kernel_calls = <<>>
    /\ temp_array = <<>>
    /\ retvars = <<>>
    /\ result = <<>>
    /\ error = NoError
    /\ spans = <<>>
    /\ cancel = NoCancel

coregister_vars == <<ds_master, ds_slave, method_us, method_ds, grid_idx, var_idx,
                     time_idx, checks, intersection, target, codes, kernel_calls,
                     temp_array, retvars, result, error, spans, cancel>>

(***************************************************************************)
(* SpecFI: _find_intersection called directly on a pair of generated axes. *)
(***************************************************************************)
InitFI ==
    /\ pc = "find_intersection"
    /\ \E first \in Axes, second \in Axes, global_bounds \in GlobalBounds :
         fi = [first |-> first, second |-> second, global_bounds |-> global_bounds,
               done |-> FALSE, ret |-> IntersectionError]
    /\ gv = GvIdle
    /\ rp = RpIdle
    /\ CoregisterIdle

FindIntersection ==
    /\ pc = "find_intersection"
    /\ fi' = [fi EXCEPT !.done = TRUE,
                        !.ret = find_intersection(fi.first, fi.second, fi.global_bounds)]
    /\ pc' = "returned"
    /\ UNCHANGED <<gv, rp, coregister_vars>>

NextFI == FindIntersection

SpecFI == InitFI /\ [][NextFI]_vars

(***************************************************************************)
(* Claims about _find_intersection, checked under SpecFI.                  *)
(***************************************************************************)
FiReturned == pc = "returned" /\ fi.done

FiValidInputs ==
    /\ ValidGrid(fi.first, fi.global_bounds[1])
    /\ ValidGrid(fi.second, fi.global_bounds[1])

\* C2: _find_intersection(X, Y, G) and _find_intersection(Y, X, G) both raise
\* the intersection error or both return the same (min, max) pair.
C2_Commutative ==
    FiReturned =>
        fi.ret = find_intersection(fi.second, fi.first, fi.global_bounds)

\* C2 witness: a call on axes of different pixel sizes whose maximum was
\* snapped down by the loop and which returned a pair.
C2_Witness ==
    /\ FiReturned
    /\ fi.ret.ok
    /\ PixelSize(fi.first) # PixelSize(fi.second)
    /\ fi.ret.max2 < RawMaximum2(fi.first, fi.second)

\* C3: for axes that pass the three grid checks, a returned pair satisfies
\* min < max, globalBounds.low <= min and max <= globalBounds.high.
C3_WithinGlobalBounds ==
    (FiReturned /\ fi.ret.ok /\ FiValidInputs) =>
        /\ fi.ret.min2 < fi.ret.max2
        /\ 2 * fi.global_bounds[1] <= fi.ret.min2
        /\ fi.ret.max2 <= 2 * fi.global_bounds[2]

\* C3 witness: two valid axes whose raw upper pixel edge lies above the
\* global upper bound, and a pair is returned.
C3_Witness ==
    /\ FiReturned
    /\ fi.ret.ok
    /\ FiValidInputs
    /\ RawMaximum2(fi.first, fi.second) > 2 * fi.global_bounds[2]

\* C4 (as claimed): for valid axes the returned min and max lie on a pixel
\* boundary of BOTH grids: min - low and high - max are multiples of firstPx
\* and of secondPx.
C4_SharedBoundary ==
    (FiReturned /\ fi.ret.ok /\ FiValidInputs) =>
        /\ ModIsZero(fi.ret.min2 - 2 * fi.global_bounds[1], PixelSize(fi.first))
        /\ ModIsZero(fi.ret.min2 - 2 * fi.global_bounds[1], PixelSize(fi.second))
        /\ ModIsZero(2 * fi.global_bounds[2] - fi.ret.max2, PixelSize(fi.first))
        /\ ModIsZero(2 * fi.global_bounds[2] - fi.ret.max2, PixelSize(fi.second))

\* C5 (as claimed): on identical axes the call returns
\* (X[0] - px/2, X[-1] + px/2) clipped to the global bounds.
C5_IdenticalClipped ==
    (FiReturned /\ fi.first = fi.second) =>
        /\ fi.ret.ok
        /\ fi.ret.min2 = Max(2 * fi.first[1] - PixelSize(fi.first),
                             2 * fi.global_bounds[1])
        /\ fi.ret.max2 = Min(2 * fi.first[Len(fi.first)] + PixelSize(fi.first),
                             2 * fi.global_bounds[2])

\* C5 (amended): on identical axes the call either raises the intersection
\* error or returns exactly (X[0] - px/2, X[-1] + px/2), unclipped; it returns
\* iff px > 0, X[-1] >= X[0], and both X[0] - px/2 - low and
\* high - (X[-1] + px/2) are multiples of px.
C5_IdenticalUnclipped ==
    (FiReturned /\ fi.first = fi.second) =>
        LET X == fi.first
            px == PixelSize(X)
            lo2 == 2 * X[1] - px
            hi2 == 2 * X[Len(X)] + px
        IN  /\ fi.ret.ok <=>
                  /\ px > 0
                  /\ X[Len(X)] >= X[1]
                  /\ (lo2 - 2 * fi.global_bounds[1]) % (2 * px) = 0
                  /\ (2 * fi.global_bounds[2] - hi2) % (2 * px) = 0
            /\ fi.ret.ok => (fi.ret.min2 = lo2 /\ fi.ret.max2 = hi2)

\* C5 witness: identical axes on which a pair is returned.
C5_Witness ==
    /\ FiReturned
    /\ fi.first = fi.second
    /\ fi.ret.ok
    /\ FiValidInputs
    /\ Len(fi.first) = 3
    /\ fi.first[3] > fi.first[1]

\* the call passed the overlap check of line 306 and entered the loops
FiLoopsEntered ==
    ~NoOverlap(RawMaximum2(fi.first, fi.second) - RawMinimum2(fi.first, fi.second),
               PixelSize(fi.first), PixelSize(fi.second))

\* the values of the minimum loop and of the maximum loop of the call
FiMinimumSteps ==
    MinimumSteps(RawMinimum2(fi.first, fi.second), 0, fi.global_bounds[1],
                 PixelSize(fi.first), PixelSize(fi.second))

FiMaximumSteps ==
    MaximumSteps(RawMaximum2(fi.first, fi.second), 0, fi.global_bounds[2],
                 PixelSize(fi.first), PixelSize(fi.second))

\* offset2 is a multiple of the first or of the second pixel size
AlignedToEither(offset2, first, second) ==
    \/ (PixelSize(first) # 0 /\ offset2 % (2 * PixelSize(first)) = 0)
    \/ (PixelSize(second) # 0 /\ offset2 % (2 * PixelSize(second)) = 0)

\* C16: _find_intersection always terminates.  The minimum loop changes the
\* minimum only upwards and by exactly min(firstPx, secondPx) per step, the
\* maximum loop changes the maximum only downwards by the same step; each
\* loop makes at most 100 steps, after which its alignment condition (offset a
\* multiple of firstPx or of secondPx) holds or the intersection error is
\* raised.
C16_LoopsBounded ==
    /\ pc \in {"find_intersection", "returned"}
    /\ (FiReturned /\ FiLoopsEntered) =>
          LET step2 == 2 * Min(PixelSize(fi.first), PixelSize(fi.second))
              mins == FiMinimumSteps
              maxs == FiMaximumSteps
              low2 == 2 * fi.global_bounds[1]
              high2 == 2 * fi.global_bounds[2]
              min_aligned == AlignedToEither(mins[Len(mins)] - low2,
                                             fi.first, fi.second)
              max_aligned == AlignedToEither(high2 - maxs[Len(maxs)],
                                             fi.first, fi.second)
          IN  /\ step2 >= 0
              /\ Len(mins) - 1 <= 100
              /\ \A k \in 1..(Len(mins) - 1) : mins[k + 1] = mins[k] + step2
              /\ min_aligned \/ ~fi.ret.ok
              /\ min_aligned =>
                    /\ Len(maxs) - 1 <= 100
                    /\ \A k \in 1..(Len(maxs) - 1) : maxs[k + 1] = maxs[k] - step2
                    /\ max_aligned \/ ~fi.ret.ok
              /\ fi.ret.ok =>
                    /\ fi.ret.min2 = mins[Len(mins)]
                    /\ fi.ret.max2 = maxs[Len(maxs)]

\* C16 witness: a call whose minimum loop made a step of the second, smaller
\* pixel size and which returned a pair.
C16_Witness ==
    /\ FiReturned
    /\ FiLoopsEntered
    /\ fi.ret.ok
    /\ Len(FiMinimumSteps) > 1
    /\ PixelSize(fi.first) > PixelSize(fi.second)

(***************************************************************************)
(* SpecGV: the three grid checks called directly on a generated axis and   *)
(* on the same axis with one value replaced.                               *)
(***************************************************************************)
Origins == {LatBounds[1], LonBounds[1]}

\* the three checks in the order of lines 95, 105, 110
GridChecks(array, origin) ==
    <<within_bounds(array, origin),
      is_equidistant(array),
      is_pixel_registered(array, origin)>>

InitGV ==
    /\ pc = "grid_checks"
    /\ \E array \in Axes, origin \in Origins :
         \E idx \in 1..Len(array), value \in Coords :
            gv = [array |-> array, origin |-> origin, idx |-> idx, value |-> value,
                  done |-> FALSE, checks |-> <<>>, perturbed |-> <<>>]
    /\ fi = FiIdle
    /\ rp = RpIdle
    /\ CoregisterIdle

RunGridChecks ==
    /\ pc = "grid_checks"
    /\ gv' = [gv EXCEPT
                !.done = TRUE,
                !.checks = GridChecks(gv.array, gv.origin),
                !.perturbed = GridChecks([gv.array EXCEPT ![gv.idx] = gv.value],
                                         gv.origin)]
    /\ pc' = "returned"
    /\ UNCHANGED <<fi, rp, coregister_vars>>

NextGV == RunGridChecks

SpecGV == InitGV /\ [][NextGV]_vars

\* An ascending axis of constant pixel size px whose every value is a pixel
\* centre of the grid that starts at origin, with all centres in [origin, -origin].
IsGridAxis(array, origin) ==
    LET px == array[2] - array[1]
    IN  /\ px > 0
        /\ \A i \in 1..(Len(array) - 1) : array[i + 1] - array[i] = px
        /\ \A i \in 1..Len(array) :
              /\ (2 * array[i] - px - 2 * origin) % (2 * px) = 0
              /\ origin <= array[i]
              /\ array[i] <= 0 - origin

\* value is not a pixel centre of the grid of array
OffGrid(value, array, origin) ==
    LET px == array[2] - array[1]
    IN  (2 * value - px - 2 * origin) % (2 * px) # 0

GvReturned == pc = "returned" /\ gv.done

\* C8 (as claimed): a grid axis within [-B, B] passes the three checks, and
\* replacing any one of its values by an off-grid value makes a check fail.
C8_PerturbedFails ==
    (GvReturned /\ IsGridAxis(gv.array, gv.origin)) =>
        /\ gv.checks = <<TRUE, TRUE, TRUE>>
        /\ OffGrid(gv.value, gv.array, gv.origin) =>
              gv.perturbed # <<TRUE, TRUE, TRUE>>

\* C8 (amended): a grid axis within [-B, B] passes the three checks, and
\* replacing any one value of such an axis of at least three values by an
\* off-grid value makes _is_equidistant return false.
C8_PerturbedNotEquidistant ==
    (GvReturned /\ IsGridAxis(gv.array, gv.origin)) =>
        /\ gv.checks = <<TRUE, TRUE, TRUE>>
        /\ (OffGrid(gv.value, gv.array, gv.origin) /\ Len(gv.array) >= 3) =>
              ~gv.perturbed[2]

\* C8 witness: a grid axis of three values whose first value was replaced
\* by an off-grid value.
C8_Witness ==
    /\ GvReturned
    /\ IsGridAxis(gv.array, gv.origin)
    /\ Len(gv.array) >= 3
    /\ gv.idx = 1
    /\ OffGrid(gv.value, gv.array, gv.origin)
    /\ ~gv.perturbed[2]

\* every value v of array is a pixel centre of the grid of pixel size
\* px = |array[1] - array[0]| that starts at origin:
\* (v - px / 2 - origin) mod px = 0
AllCentred(array, origin) ==
    LET px == Abs(array[2] - array[1])
    IN  /\ px # 0
        /\ \A i \in 1..Len(array) : (2 * array[i] - px - 2 * origin) % (2 * px) = 0

\* the axis of the call with its value at idx replaced
GvPerturbed == [gv.array EXCEPT ![gv.idx] = gv.value]

\* C17: every axis that the three grid checks accept has each of its values
\* on a pixel centre, (v - px/2 - origin) mod px = 0, although
\* _is_pixel_registered looks at the first value only and _is_equidistant
\* compares absolute steps.
C17_AcceptedAxisCentred ==
    GvReturned =>
        /\ gv.checks = <<TRUE, TRUE, TRUE>> => AllCentred(gv.array, gv.origin)
        /\ gv.perturbed = <<TRUE, TRUE, TRUE>> => AllCentred(GvPerturbed, gv.origin)

\* C17 witness: the checks accept an axis of three values that is not
\* monotonic, and accept it again with its last value replaced by another.
C17_Witness ==
    /\ GvReturned
    /\ gv.checks = <<TRUE, TRUE, TRUE>>
    /\ Len(gv.array) = 3
    /\ gv.array[3] = gv.array[1]
    /\ gv.idx = 3
    /\ gv.value # gv.array[3]
    /\ gv.perturbed = <<TRUE, TRUE, TRUE>>

(***************************************************************************)
(* coregister: the method tables, the kernel call and the helpers of the   *)
(* resampling pipeline.                                                    *)
(***************************************************************************)

\* defaults of the signature, lines 54-55
DefaultMethodUs == "linear"
DefaultMethodDs == "mean"

\* lines 126-127
methods_us == [nearest |-> 10, linear |-> 11]
methods_ds == [first |-> 50, last |-> 51, mean |-> 54, mode |-> 56,
               var |-> 57, std |-> 58]

MethodUsNames == DOMAIN methods_us
MethodDsNames == DOMAIN methods_ds

\* the value an argument takes in the body: the default when omitted
ArgOr(arg, default) == IF arg = NoArg THEN default ELSE arg

\* line 129: the codes handed to _resample_dataset(.., method_us, method_ds, ..)
LookupCodes(us_name, ds_name) ==
    [us |-> methods_us[ArgOr(us_name, DefaultMethodUs)],
     ds |-> methods_ds[ArgOr(ds_name, DefaultMethodDs)]]

\* resampling.resample_2d(src, w, h, ds_method, us_method): what the kernel
\* receives in each of its parameters
resample_2d(src, w, h, ds_method, us_method) ==
    [src |-> src, w |-> w, h |-> h, ds_method |-> ds_method, us_method |-> us_method]

\* _resample_slice, lines 200-204: the positional call of the kernel
resample_slice_mut(arr_slice, w, h, ds_method, us_method) ==
    resample_2d(arr_slice, w, h, us_method, ds_method)

resample_slice(arr_slice, w, h, ds_method, us_method) ==
    resample_2d(arr_slice, w, h, ds_method, us_method)

\* _resample_array, lines 222-232: the keyword call of _resample_slice on the
\* slice of array at time step t
ResampleArraySlice(array, t, lon, lat, us_code, ds_code) ==
    LET width == Len(lon)
        height == Len(lat)
    IN  resample_slice(<<array.name, t>>, width, height, ds_code, us_code)

\* _resample_array, lines 235-239: the reassembled variable
ResampleArrayResult_mut(array, time, lon, lat, slices) ==
    [name |-> array.name, dims |-> array.dims, attrs |-> array.attrs,
     time |-> time, lat |-> lat, lon |-> lon,
     values |-> [k \in 1..Len(slices) |-> slices[Len(slices) + 1 - k]]]

ResampleArrayResult(array, time, lon, lat, slices) ==
    [name |-> array.name, dims |-> array.dims, attrs |-> array.attrs,
     time |-> time, lat |-> lat, lon |-> lon, values |-> slices]

IsIncreasing(array) == \A i \in 1..(Len(array) - 1) : array[i] < array[i + 1]
IsDecreasing(array) == \A i \in 1..(Len(array) - 1) : array[i] > array[i + 1]

\* lines 272-276: coordinate.sel(slice(lo, hi)), label based and inclusive on
\* an increasing index, empty on a decreasing one, a KeyError on an index that
\* is not monotonic; lo2 and hi2 are doubled
Sel_mut(array, lo2, hi2) ==
    IF IsIncreasing(array)
    THEN [ok |-> TRUE,
          values |-> SelectSeq(array, LAMBDA v : lo2 <= 2 * v /\ 2 * v < hi2)]
    ELSE IF IsDecreasing(array)
         THEN [ok |-> TRUE, values |-> <<>>]
         ELSE [ok |-> FALSE, values |-> <<>>]

Sel(array, lo2, hi2) ==
    IF IsIncreasing(array)
    THEN [ok |-> TRUE,
          values |-> SelectSeq(array, LAMBDA v : lo2 <= 2 * v /\ 2 * v <= hi2)]
    ELSE IF IsDecreasing(array)
         THEN [ok |-> TRUE, values |-> <<>>]
         ELSE [ok |-> FALSE, values |-> <<>>]

\* line 280: Dataset.apply(func, keep_attrs=True): the new dataset takes the
\* attributes of the dataset it is applied to when keep_attrs is set
DatasetApplyAttrs(ds_attrs, keep_attrs) == IF keep_attrs THEN ds_attrs ELSE {}

\* the keep_attrs argument of line 280
KeepAttrs == TRUE

AxisFirst(array) == IF array = <<>> THEN 0 ELSE array[1]
AxisLast(array) == IF array = <<>> THEN 0 ELSE array[Len(array)]

SpatialKeys == {"geospatial_lat_min", "geospatial_lat_max",
                "geospatial_lon_min", "geospatial_lon_max"}

\* normalize.adjust_spatial_attrs (line 282): the dataset with its spatial
\* summary attributes recomputed from its coordinates, other attributes kept
adjust_spatial_attrs(ds) ==
    [ds EXCEPT !.attrs =
        {a \in ds.attrs : a[1] \notin SpatialKeys} \cup
        {<<"geospatial_lat_min", AxisFirst(ds.lat)>>,
         <<"geospatial_lat_max", AxisLast(ds.lat)>>,
         <<"geospatial_lon_min", AxisFirst(ds.lon)>>,
         <<"geospatial_lon_max", AxisLast(ds.lon)>>}]

(***************************************************************************)
(* The progress monitor (cate.util.monitor.Monitor).  A span is one        *)
(* start .. done bracket of a monitor: the dataset span of line 278, the   *)
(* span of a variable (lines 225, 231) and the span of a time slice        *)
(* (lines 198-199).  The log keeps, per span, the declared total work, the *)
(* work reported to it and how many times it was ended.                    *)
(***************************************************************************)
DatasetSpan == <<0, 0>>
ArraySpan(v) == <<v, 0>>
SliceSpan(v, t) == <<v, t>>

\* Monitor.start(label, total_work)
SpanStart(log, id, label, total_work) ==
    Append(log, [id |-> id, label |-> label, total_work |-> total_work,
                 worked |-> 0, done |-> 0])

\* Monitor.progress(work)
SpanProgress(log, id, work) ==
    [i \in DOMAIN log |->
        IF log[i].id = id THEN [log[i] EXCEPT !.worked = @ + work] ELSE log[i]]

\* Monitor.done()
SpanDone(log, id) ==
    [i \in DOMAIN log |->
        IF log[i].id = id THEN [log[i] EXCEPT !.done = @ + 1] ELSE log[i]]

\* the span of a child monitor created by parent.child(work) ends normally:
\* the share of work that the child completed is reported to the parent span
ChildDone(log, id, parent, work) ==
    LET i == CHOOSE k \in DOMAIN log : log[k].id = id
    IN  SpanProgress(SpanDone(log, id), parent,
                     (work * log[i].worked) \div log[i].total_work)

\* the work a scoped observing span reports: one unit
ObservedWork == 1

\* lines 198 and 225: parent_monitor.child(1)
ChildWork == 1

\* line 278: total work of the dataset span
DatasetTotalWork(ds) == Len(ds.data_vars)

\* lines 228-231: num_time_steps = len(group_by_time), total work of the span
\* of one variable
ArrayTotalWork_mut(ds) == Len(ds.data_vars)

ArrayTotalWork(ds) == ds.ntime

\* the with blocks that enclose the kernel call of slice t of variable v,
\* innermost first: lines 199, 231, 278
EnclosingSpans_mut(v, t) == <<SliceSpan(v, t), DatasetSpan>>

EnclosingSpans(v, t) == <<SliceSpan(v, t), ArraySpan(v), DatasetSpan>>

\* an exception leaves the with blocks of ids: each ends its span
RECURSIVE Unwind(_, _)
Unwind(log, ids) ==
    IF ids = <<>> THEN log ELSE Unwind(SpanDone(log, Head(ids)), Tail(ids))

\* lines 89-92
grids_mut == <<<<"master", ds_master.lat, -90>>,
               <<"master", ds_master.lon, -180>>,
               <<"slave", ds_slave.lat, -90>>,
               <<"slave", ds_slave.lon, -180>>>>

grids == <<<<"slave", ds_slave.lat, -90>>,
           <<"slave", ds_slave.lon, -180>>,
           <<"master", ds_master.lat, -90>>,
           <<"master", ds_master.lon, -180>>>>

Raise(kind, who, args) == [type |-> "ValueError", kind |-> kind, who |-> who, args |-> args]

(***************************************************************************)
(* Spec: one call of coregister, step by step.  Inputs.                    *)
(*                                                                         *)
(* Each axis set holds axes that pass the three grid checks (global,       *)
(* partial, disjoint, descending, not monotonic) and one axis failing each *)
(* check.  The slave dataset has one to MaxVars data variables over a      *)
(* shared time coordinate of one to MaxTime steps.                         *)
(***************************************************************************)
LatAxes == {<<-60, 0, 60>>, <<-75, -45, -15, 15, 45, 75>>, <<-15, 15, 45>>,
            <<60, 0, -60>>, <<-60, 0, -60, 0>>,
            <<-105, -75>>, <<-75, -45, 0>>, <<-60, -30, 0>>}

LonAxes == {<<-120, 0, 120>>, <<-150, -90, -30, 30, 90, 150>>, <<30, 90>>,
            <<-150, -90>>, <<120, 0, -120>>,
            <<-210, -150>>, <<-150, -90, 0>>, <<-120, -60, 0>>}

DimsChoices == {<<"time", "lat", "lon">>, <<"lat", "lon">>,
                <<"time", "lat", "lon", "depth">>, <<"time", "lat", "depth">>}

\* the variable at position i of the slave dataset: its name is i
SlaveVar(i, dims) == [name |-> i, dims |-> dims, attrs |-> {<<"units", i>>}]

VarLists ==
    UNION {{[i \in 1..n |-> SlaveVar(i, d[i])] : d \in [1..n -> DimsChoices]} :
             n \in 1..MaxVars}

SlaveAttrs == {{}, {<<"title", 1>>}}

\* every combination of grids, with one valid variable and default methods
GridScenarios ==
    {[master |-> [lat |-> mlat, lon |-> mlon],
      slave |-> [lat |-> slat, lon |-> slon, ntime |-> nt,
                 data_vars |-> <<SlaveVar(1, <<"time", "lat", "lon">>)>>,
                 attrs |-> {<<"title", 1>>}],
      us |-> NoArg, ds |-> NoArg] :
        mlat \in LatAxes, mlon \in LonAxes, slat \in LatAxes, slon \in LonAxes,
        nt \in 1..MaxTime}

\* a global master and a global finer slave, with every combination of
\* variables, methods and dataset attributes
MethodScenarios ==
    {[master |-> [lat |-> <<-60, 0, 60>>, lon |-> <<-120, 0, 120>>],
      slave |-> [lat |-> <<-75, -45, -15, 15, 45, 75>>,
                 lon |-> <<-150, -90, -30, 30, 90, 150>>,
                 ntime |-> nt, data_vars |-> vs, attrs |-> at],
      us |-> us, ds |-> ds] :
        nt \in 1..MaxTime, vs \in VarLists, at \in SlaveAttrs,
        us \in MethodUsNames \cup {NoArg}, ds \in MethodDsNames \cup {NoArg}}

Init ==
    /\ pc = "validate_grids"
    /\ \E call \in GridScenarios \cup MethodScenarios :
         /\ ds_master = call.master
         /\ ds_slave = call.slave
         /\ method_us = call.us
         /\ method_ds = call.ds
    /\ grid_idx = 1
    /\ var_idx = 1
    /\ time_idx = 1
    /\ checks = <<>>
    /\ intersection = NoIntersection
    /\ target = NoDataset
    /\ codes = NoCodes
    /\ kernel_calls = <<>>
    /\ temp_array = <<>>
    /\ retvars = <<>>
    /\ result = <<>>
    /\ error = NoError
    /\ spans = <<>>
    /\ cancel = NoCancel
    /\ fi = FiIdle
    /\ gv = GvIdle
    /\ rp = RpIdle

(***************************************************************************)
(* Spec: the steps of coregister.                                          *)
(***************************************************************************)
inputs == <<ds_master, ds_slave, method_us, method_ds, fi, gv, rp>>

CheckName(k) == IF k = 1 THEN "bounds" ELSE IF k = 2 THEN "equidistant" ELSE "registered"

\* one pass of the loop of lines 94-113 on grids[g]: the checks it runs, in
\* order, up to and including the first that fails
GridChecksRun(g) ==
    LET array == grids[g]
        outcome == GridChecks(array[2], array[3])
        n == IF ~outcome[1] THEN 1 ELSE IF ~outcome[2] THEN 2 ELSE 3
    IN  [k \in 1..n |-> [grid |-> g, var |-> 0, check |-> CheckName(k),
                         ok |-> outcome[k]]]

\* the error of lines 96-113 for the check that failed on grids[g]
GridError(g, check) ==
    LET array == grids[g]
    IN  IF check = "bounds"
        THEN Raise("bounds", array[1],
                   <<array[3], Abs(array[3]), array[2][1], array[2][Len(array[2])]>>)
        ELSE Raise(check, array[1], <<>>)

\* lines 94-113, one grid
CheckGrid ==
    /\ pc = "validate_grids"
    /\ LET run == GridChecksRun(grid_idx)
           last == run[Len(run)]
       IN  /\ checks' = checks \o run
           /\ IF ~last.ok
              THEN /\ error' = GridError(grid_idx, last.check)
                   /\ pc' = "raised"
                   /\ UNCHANGED grid_idx
              ELSE /\ error' = error
                   /\ grid_idx' = grid_idx + 1
                   /\ pc' = IF grid_idx = Len(grids) THEN "validate_vars"
                                                      ELSE "validate_grids"
    /\ UNCHANGED <<inputs, spans, cancel, var_idx, time_idx, intersection, target, codes,
                   kernel_calls, temp_array, retvars, result>>

\* lines 116-123, one slave variable
CheckVar ==
    /\ pc = "validate_vars"
    /\ LET array == ds_slave.data_vars[var_idx]
           ok == is_valid_array(array.dims)
       IN  /\ checks' = Append(checks, [grid |-> 0, var |-> var_idx,
                                        check |-> "shape", ok |-> ok])
           /\ IF ~ok
              THEN /\ error' = Raise("shape", "slave", <<array.name>>)
                   /\ pc' = "raised"
                   /\ UNCHANGED var_idx
              ELSE /\ error' = error
                   /\ var_idx' = var_idx + 1
                   /\ pc' = IF var_idx = Len(ds_slave.data_vars)
                            THEN "dispatch" ELSE "validate_vars"
    /\ UNCHANGED <<inputs, spans, cancel, grid_idx, time_idx, intersection, target, codes,
                   kernel_calls, temp_array, retvars, result>>

\* lines 126-129: look the method codes up and enter _resample_dataset
Dispatch ==
    /\ pc = "dispatch"
    /\ codes' = LookupCodes(method_us, method_ds)
    /\ pc' = "intersect_lat"
    /\ UNCHANGED <<inputs, spans, cancel, grid_idx, var_idx, time_idx, checks, intersection,
                   target, kernel_calls, temp_array, retvars, result, error>>

\* lines 261-263
IntersectLat ==
    /\ pc = "intersect_lat"
    /\ LET r == find_intersection(ds_master.lat, ds_slave.lat, LatBounds)
       IN  IF r.ok
           THEN /\ intersection' = [intersection EXCEPT !.lat = r]
                /\ pc' = "intersect_lon"
                /\ error' = error
           ELSE /\ error' = Raise("intersection", "lat", <<>>)
                /\ pc' = "raised"
                /\ UNCHANGED intersection
    /\ UNCHANGED <<inputs, spans, cancel, grid_idx, var_idx, time_idx, checks, target, codes,
                   kernel_calls, temp_array, retvars, result>>

\* lines 264-266
IntersectLon ==
    /\ pc = "intersect_lon"
    /\ LET r == find_intersection(ds_master.lon, ds_slave.lon, LonBounds)
       IN  IF r.ok
           THEN /\ intersection' = [intersection EXCEPT !.lon = r]
                /\ pc' = "subset"
                /\ error' = error
           ELSE /\ error' = Raise("intersection", "lon", <<>>)
                /\ pc' = "raised"
                /\ UNCHANGED intersection
    /\ UNCHANGED <<inputs, spans, cancel, grid_idx, var_idx, time_idx, checks, target, codes,
                   kernel_calls, temp_array, retvars, result>>

\* lines 272-279: subset the master grid, lon first, and start the dataset
\* span
Subset ==
    /\ pc = "subset"
    /\ LET lon == Sel(ds_master.lon, intersection.lon.min2, intersection.lon.max2)
           lat == Sel(ds_master.lat, intersection.lat.min2, intersection.lat.max2)
       IN  IF lon.ok /\ lat.ok
           THEN /\ target' = [lat |-> lat.values, lon |-> lon.values]
                /\ spans' = SpanStart(spans, DatasetSpan, "coregister dataset",
                                      DatasetTotalWork(ds_slave))
                /\ pc' = "resample_array"
                /\ var_idx' = 1
                /\ time_idx' = 1
                /\ error' = error
           ELSE /\ error' = [type |-> "KeyError", kind |-> "sel",
                             who |-> IF lon.ok THEN "lat" ELSE "lon", args |-> <<>>]
                /\ pc' = "raised"
                /\ UNCHANGED <<target, var_idx, time_idx, spans>>
    /\ UNCHANGED <<inputs, cancel, grid_idx, checks, intersection, codes,
                   kernel_calls, temp_array, retvars, result>>

\* lines 222-231: _resample_array is entered for the variable in turn and
\* starts its span
ResampleArrayBegin ==
    /\ pc = "resample_array"
    /\ spans' = SpanStart(spans, ArraySpan(var_idx), "coregister dataarray",
                          ArrayTotalWork(ds_slave))
    /\ time_idx' = 1
    /\ temp_array' = <<>>
    /\ pc' = "resample_slice"
    /\ UNCHANGED <<inputs, cancel, grid_idx, var_idx, checks, intersection, target,
                   codes, kernel_calls, retvars, result, error>>

\* the kernel call of the slice in turn (lines 198-205 under line 232)
SliceCall ==
    ResampleArraySlice(ds_slave.data_vars[var_idx], time_idx,
                       target.lon, target.lat, codes.us, codes.ds)

\* lines 198-205: _resample_slice on the slice in turn; the kernel returns
ResampleSlice ==
    /\ pc = "resample_slice"
    /\ time_idx <= ds_slave.ntime
    /\ kernel_calls' = Append(kernel_calls, SliceCall)
    /\ temp_array' = Append(temp_array, SliceCall)
    /\ LET id == SliceSpan(var_idx, time_idx)
           started == SpanStart(spans, id, "resample time slice", ObservedWork)
       IN  spans' = ChildDone(SpanProgress(started, id, ObservedWork), id,
                              ArraySpan(var_idx), ChildWork)
    /\ time_idx' = time_idx + 1
    /\ UNCHANGED <<inputs, cancel, pc, grid_idx, var_idx, checks, intersection,
                   target, codes, retvars, result, error>>

\* where the call stands after the kernel raised: the exception is not caught
\* anywhere in lines 186-282
AfterKernelError_mut == "resample_slice"

AfterKernelError == "raised"

\* lines 198-205: _resample_slice on the slice in turn; the kernel raises and
\* the exception leaves the with blocks of lines 199, 231 and 278
ResampleSliceFails ==
    /\ pc = "resample_slice"
    /\ time_idx <= ds_slave.ntime
    /\ kernel_calls' = Append(kernel_calls, SliceCall)
    /\ error' = [type |-> "KernelError", kind |-> "kernel", who |-> "slave",
                 args |-> <<var_idx, time_idx>>]
    /\ spans' = Unwind(SpanStart(spans, SliceSpan(var_idx, time_idx),
                                 "resample time slice", ObservedWork),
                       EnclosingSpans(var_idx, time_idx))
    /\ pc' = AfterKernelError
    /\ time_idx' = IF AfterKernelError = "raised" THEN time_idx ELSE time_idx + 1
    /\ temp_array' = IF AfterKernelError = "raised" THEN temp_array
                     ELSE Append(temp_array, SliceCall)
    /\ UNCHANGED <<inputs, cancel, grid_idx, var_idx, checks, intersection,
                   target, codes, retvars, result>>

\* lines 231-239: every slice is resampled; reassemble the variable and end
\* its span; Dataset.apply moves to the next variable
ResampleArrayEnd ==
    /\ pc = "resample_slice"
    /\ time_idx > ds_slave.ntime
    /\ retvars' = Append(retvars,
                         ResampleArrayResult(ds_slave.data_vars[var_idx],
                                             ds_slave.ntime, target.lon, target.lat,
                                             temp_array))
    /\ spans' = ChildDone(spans, ArraySpan(var_idx), DatasetSpan, ChildWork)
    /\ temp_array' = <<>>
    /\ time_idx' = 1
    /\ var_idx' = var_idx + 1
    /\ pc' = IF var_idx = Len(ds_slave.data_vars) THEN "finish" ELSE "resample_array"
    /\ UNCHANGED <<inputs, cancel, grid_idx, checks, intersection, target, codes,
                   kernel_calls, result, error>>

\* lines 278-282: the dataset of Dataset.apply, the end of the dataset span,
\* then adjust_spatial_attrs
Finish ==
    /\ pc = "finish"
    /\ result' = <<adjust_spatial_attrs(
                     [data_vars |-> retvars,
                      lat |-> target.lat,
                      lon |-> target.lon,
                      attrs |-> DatasetApplyAttrs(ds_slave.attrs, KeepAttrs)])>>
    /\ spans' = SpanDone(spans, DatasetSpan)
    /\ pc' = "returned"
    /\ UNCHANGED <<inputs, cancel, grid_idx, var_idx, time_idx, checks, intersection,
                   target, codes, kernel_calls, temp_array, retvars, error>>

\* Monitor.cancel(): the caller requests cancellation while the dataset is
\* being resampled; the request records how many kernel calls were made
Cancel ==
    /\ pc \in {"resample_array", "resample_slice"}
    /\ ~cancel.requested
    /\ cancel' = [requested |-> TRUE, at |-> Len(kernel_calls)]
    /\ UNCHANGED <<inputs, pc, grid_idx, var_idx, time_idx, checks, intersection,
                   target, codes, kernel_calls, temp_array, retvars, result, error,
                   spans>>

Next ==
    \/ CheckGrid
    \/ CheckVar
    \/ Dispatch
    \/ IntersectLat
    \/ IntersectLon
    \/ Subset
    \/ ResampleArrayBegin
    \/ ResampleSlice
    \/ ResampleSliceFails
    \/ ResampleArrayEnd
    \/ Finish
    \/ Cancel

Spec == Init /\ [][Next]_vars

(***************************************************************************)
(* SpecAll: any of the three calls.                                        *)
(***************************************************************************)
InitAll == Init \/ InitFI \/ InitGV

NextAll == Next \/ NextFI \/ NextGV

SpecAll == InitAll /\ [][NextAll]_vars

(***************************************************************************)
(* Claims about coregister, checked under Spec.                            *)
(***************************************************************************)
Terminal == pc \in {"raised", "returned"}

\* the call in progress is a call of coregister
InCoregister == grid_idx > 0

\* the four grids pass the three checks each
AllGridsPass == \A g \in 1..4 : ValidGrid(grids[g][2], grids[g][3])

\* exactly the three dimensions time, lat, lon
HasTimeLatLon(dims) ==
    /\ Len(dims) = 3
    /\ {dims[i] : i \in 1..Len(dims)} = {"time", "lat", "lon"}

AllShapesPass ==
    \A i \in 1..Len(ds_slave.data_vars) : HasTimeLatLon(ds_slave.data_vars[i].dims)

\* the log holds the twelve grid checks and one shape check per slave
\* variable, all passed
ChecksComplete ==
    /\ Len(checks) = 12 + Len(ds_slave.data_vars)
    /\ \A i \in 1..Len(checks) : checks[i].ok
    /\ \A g \in 1..4 : \A k \in 1..3 :
          \E i \in 1..Len(checks) : checks[i].grid = g /\ checks[i].check = CheckName(k)
    /\ \A v \in 1..Len(ds_slave.data_vars) :
          \E i \in 1..Len(checks) : checks[i].var = v /\ checks[i].check = "shape"

ValidationKinds == {"bounds", "equidistant", "registered", "shape"}

\* C1: every grid check and every slave-variable shape check has completed
\* when the kernel is first invoked; if any of them fails, coregister raises a
\* validation error, the kernel is never invoked and no dataset is returned.
C1_ValidationBeforeKernel ==
    /\ kernel_calls # <<>> => (ChecksComplete /\ AllGridsPass /\ AllShapesPass)
    /\ ~(AllGridsPass /\ AllShapesPass) =>
          /\ kernel_calls = <<>>
          /\ result = <<>>
          /\ Terminal => (pc = "raised" /\ error.type = "ValueError"
                                        /\ error.kind \in ValidationKinds)
    /\ ~Terminal => ENABLED Next

\* C1 witness: the kernel has just been invoked for the first time on a
\* slave dataset of two variables.
C1_Witness ==
    /\ Len(kernel_calls) = 1
    /\ Len(ds_slave.data_vars) = 2
    /\ ChecksComplete

\* the raw overlap of the pixel extents of two axes, doubled
RawOverlap2(first, second) ==
    Min(2 * first[Len(first)] + PixelSize(first),
        2 * second[Len(second)] + PixelSize(second))
    - Max(2 * first[1] - PixelSize(first), 2 * second[1] - PixelSize(second))

\* the raw overlap is smaller than the larger pixel size
TooSmall(first, second) ==
    RawOverlap2(first, second) < 2 * Max(PixelSize(first), PixelSize(second))

\* C6: _find_intersection raises when the raw overlap of the pixel extents is
\* smaller than the larger pixel size; grids without overlap make coregister
\* raise the intersection error and return no dataset.
C6_SmallOverlapRaises ==
    /\ (FiReturned /\ TooSmall(fi.first, fi.second)) => ~fi.ret.ok
    /\ (InCoregister /\ (TooSmall(ds_master.lat, ds_slave.lat)
                         \/ TooSmall(ds_master.lon, ds_slave.lon))) =>
          /\ result = <<>>
          /\ kernel_calls = <<>>
          /\ (Terminal /\ AllGridsPass /\ AllShapesPass) =>
                (pc = "raised" /\ error.kind = "intersection")

\* C6 witness: coregister raised the intersection error on valid grids whose
\* longitudes do not overlap.
C6_Witness ==
    /\ InCoregister
    /\ pc = "raised"
    /\ error.kind = "intersection"
    /\ AllGridsPass
    /\ RawOverlap2(ds_master.lon, ds_slave.lon) < 0

\* C7: with grids that pass all grid checks, coregister raises the
\* invalid-variable-shape error iff some slave variable does not have exactly
\* the dimensions time, lat, lon.
C7_ShapeErrorIff ==
    (Terminal /\ AllGridsPass) =>
        ((pc = "raised" /\ error.kind = "shape") <=> ~AllShapesPass)

\* C7 witness: the shape error raised for a slave variable of dimensions
\* (lat, lon).
C7_Witness ==
    /\ pc = "raised"
    /\ error.kind = "shape"
    /\ AllGridsPass
    /\ ds_slave.data_vars[var_idx].dims = <<"lat", "lon">>

\* the codes the claimed tables give for a method argument, omitted or not
ExpectedUs == [nearest |-> 10, linear |-> 11, NoArg |-> 11]
ExpectedDs == [first |-> 50, last |-> 51, mean |-> 54, mode |-> 56, var |-> 57,
               std |-> 58, NoArg |-> 54]

\* C9: every kernel invocation receives the upsampling code of the
\* upsampling method (nearest 10, linear 11; linear when omitted) in its
\* upsampling parameter and the downsampling code of the downsampling method
\* (first 50, last 51, mean 54, mode 56, var 57, std 58; mean when omitted) in
\* its downsampling parameter.
C9_CodesReachKernel ==
    \A i \in 1..Len(kernel_calls) :
        /\ kernel_calls[i].us_method = ExpectedUs[method_us]
        /\ kernel_calls[i].ds_method = ExpectedDs[method_ds]

\* C9 witness: two kernel invocations with the upsampling method omitted and
\* the downsampling method var.
C9_Witness ==
    /\ Len(kernel_calls) = 2
    /\ method_us = NoArg
    /\ method_ds = "var"

\* C10 (as claimed): the returned dataset carries each slave variable's name
\* and attributes, and none of the slave dataset's dataset-level attributes.
C10_DatasetAttrsDropped ==
    result # <<>> =>
        LET ds == result[1]
        IN  /\ Len(ds.data_vars) = Len(ds_slave.data_vars)
            /\ \A i \in 1..Len(ds.data_vars) :
                  /\ ds.data_vars[i].name = ds_slave.data_vars[i].name
                  /\ ds.data_vars[i].attrs = ds_slave.data_vars[i].attrs
            /\ ds.attrs \cap ds_slave.attrs = {}

(***************************************************************************)
(* The output grid and the shape of the output variables.                  *)
(***************************************************************************)

\* the values v of array with lo <= v <= hi, in order (lo2, hi2 doubled)
Within(array, lo2, hi2) ==
    LET keep == {i \in 1..Len(array) : lo2 <= 2 * array[i] /\ 2 * array[i] <= hi2}
        RECURSIVE Pick(_)
        Pick(i) == IF i > Len(array) THEN <<>>
                   ELSE IF i \in keep THEN <<array[i]>> \o Pick(i + 1)
                   ELSE Pick(i + 1)
    IN  Pick(1)

\* the shape of an output variable: its slices, and the height and width the
\* kernel was asked for
Shape(var) == <<Len(var.values), var.values[1].h, var.values[1].w>>

\* an ascending axis of n values
RegularAxis(first, step, n) == [i \in 1..n |-> first + step * (i - 1)]

\* The global one degree master and the global half degree slave with two
\* time steps, in units of a quarter degree (every quantity of
\* _find_intersection and of the subsetting scales with the unit): the shape
\* of the output variable that lines 261-276 and 222-239 produce.
ExampleShape ==
    LET mlat == RegularAxis(-358, 4, 180)
        mlon == RegularAxis(-718, 4, 360)
        slat == RegularAxis(-359, 2, 360)
        slon == RegularAxis(-719, 2, 720)
        ilat == find_intersection(mlat, slat, <<-360, 360>>)
        ilon == find_intersection(mlon, slon, <<-720, 720>>)
        lon == Sel(mlon, ilon.min2, ilon.max2).values
        lat == Sel(mlat, ilat.min2, ilat.max2).values
        array == SlaveVar(1, <<"time", "lat", "lon">>)
        slices == [t \in 1..2 |-> ResampleArraySlice(array, t, lon, lat, 11, 54)]
    IN  IF ilat.ok /\ ilon.ok
        THEN Shape(ResampleArrayResult(array, 2, lon, lat, slices))
        ELSE <<0, 0, 0>>

\* C11: the output grid is the master latitudes v with latMin <= v <= latMax
\* and the master longitudes v with lonMin <= v <= lonMax, both ends included;
\* every output variable has the shape (time steps of the slave variable,
\* selected latitudes, selected longitudes); a global 1 degree master and a
\* global 0.5 degree slave with two time steps give the shape (2, 180, 360).
C11_OutputGrid ==
    /\ result # <<>> =>
          LET ds == result[1]
              ilat == find_intersection(ds_master.lat, ds_slave.lat, LatBounds)
              ilon == find_intersection(ds_master.lon, ds_slave.lon, LonBounds)
          IN  /\ ilat.ok /\ ilon.ok
              /\ ds.lat = Within(ds_master.lat, ilat.min2, ilat.max2)
              /\ ds.lon = Within(ds_master.lon, ilon.min2, ilon.max2)
              /\ \A i \in 1..Len(ds.data_vars) :
                    /\ ds.data_vars[i].lat = ds.lat
                    /\ ds.data_vars[i].lon = ds.lon
                    /\ \A t \in 1..Len(ds.data_vars[i].values) :
                          /\ ds.data_vars[i].values[t].h = Len(ds.lat)
                          /\ ds.data_vars[i].values[t].w = Len(ds.lon)
                    /\ Shape(ds.data_vars[i]) =
                          <<ds_slave.ntime, Len(ds.lat), Len(ds.lon)>>
    /\ ExampleShape = <<2, 180, 360>>

\* C11 witness: a dataset of two time steps returned on a master that the
\* intersection cuts, whose last selected latitude is latMax itself.
C11_Witness ==
    /\ result # <<>>
    /\ Len(result[1].lat) < Len(ds_master.lat)
    /\ 2 * AxisLast(result[1].lat) = intersection.lat.max2
    /\ ds_slave.ntime = 2

(***************************************************************************)
(* Cancellation, kernel failures and progress.                             *)
(***************************************************************************)

\* C12 (as claimed): a cancellation requested on the monitor while coregister
\* is resampling is observed at the next time-slice boundary: at most the
\* slice in progress is still handed to the kernel, coregister raises a
\* cancellation error and returns no dataset (calls in which the kernel itself
\* fails are left aside).
C12_CancellationObserved ==
    (cancel.requested /\ error.type # "KernelError") =>
        /\ Len(kernel_calls) <= cancel.at + 1
        /\ result = <<>>
        /\ Terminal => (pc = "raised" /\ error.type = "Cancellation")

\* C13: when the kernel fails on a slice, the failure is the error of
\* coregister at once: the failing call is the last kernel call, no later
\* slice or variable is resampled, the call has ended and no dataset is
\* returned.
C13_KernelErrorPropagates ==
    error.type = "KernelError" =>
        LET v == error.args[1]
            t == error.args[2]
        IN  /\ pc = "raised"
            /\ result = <<>>
            /\ Len(kernel_calls) = (v - 1) * ds_slave.ntime + t
            /\ kernel_calls[Len(kernel_calls)].src = <<ds_slave.data_vars[v].name, t>>
            /\ Len(retvars) = v - 1
            /\ ~ENABLED Next

\* C13 witness: the kernel failed on the first slice of the first of two
\* variables of two time steps each.
C13_Witness ==
    /\ error.type = "KernelError"
    /\ error.args = <<1, 1>>
    /\ Len(ds_slave.data_vars) = 2
    /\ ds_slave.ntime = 2

\* C18: every output variable keeps the time coordinate of its slave
\* variable, its slices are in the original time order (output slice k is the
\* kernel result for input slice k), and the output dataset has exactly the
\* slave's variable names, each holding the resampling of the slave variable
\* of that name.
C18_TimeOrderAndNames ==
    result # <<>> =>
        LET out == result[1].data_vars
        IN  /\ Len(out) = Len(ds_slave.data_vars)
            /\ \A i \in 1..Len(out) :
                  /\ out[i].name = ds_slave.data_vars[i].name
                  /\ out[i].time = ds_slave.ntime
                  /\ Len(out[i].values) = ds_slave.ntime
                  /\ \A k \in 1..Len(out[i].values) :
                        out[i].values[k].src = <<ds_slave.data_vars[i].name, k>>
            /\ \A i \in 1..Len(out) : \A j \in 1..Len(out) :
                  out[i].name = out[j].name => i = j

\* C18 witness: the second slice of the second variable of a returned
\* dataset is the kernel result for that slice.
C18_Witness ==
    /\ result # <<>>
    /\ Len(result[1].data_vars) = 2
    /\ Len(result[1].data_vars[2].values) = 2
    /\ result[1].data_vars[2].values[2].src = <<2, 2>>

\* the spans of the with blocks that a kernel error left, none without one
FailedSpans ==
    IF error.type = "KernelError"
    THEN {<<error.args[1], error.args[2]>>, <<error.args[1], 0>>, <<0, 0>>}
    ELSE {}

\* C15: the kernel is invoked exactly once per (slave variable, time step);
\* the dataset span declares as many units as there are slave variables, the
\* span of a variable as many as it has time steps, every slice reports
\* exactly one unit, and a span that ends has been reported its declared
\* total.
C15_ProgressAccounting ==
    /\ \A i \in 1..Len(kernel_calls) : \A j \in 1..Len(kernel_calls) :
          kernel_calls[i].src = kernel_calls[j].src => i = j
    /\ result # <<>> =>
          /\ Len(kernel_calls) = Len(ds_slave.data_vars) * ds_slave.ntime
          /\ \A v \in 1..Len(ds_slave.data_vars) : \A t \in 1..ds_slave.ntime :
                \E i \in 1..Len(kernel_calls) :
                    kernel_calls[i].src = <<ds_slave.data_vars[v].name, t>>
          /\ Len(spans) = 1 + Len(ds_slave.data_vars) * (1 + ds_slave.ntime)
    /\ \A n \in 1..Len(spans) :
          LET sp == spans[n]
          IN  /\ sp.id = <<0, 0>> => sp.total_work = Len(ds_slave.data_vars)
              /\ (sp.id[1] > 0 /\ sp.id[2] = 0) => sp.total_work = ds_slave.ntime
              /\ (sp.id[2] > 0 /\ sp.done > 0 /\ sp.id \notin FailedSpans) =>
                    sp.worked = 1
              /\ (sp.done > 0 /\ sp.id \notin FailedSpans) =>
                    sp.worked = sp.total_work

\* C15 witness: a dataset of two variables of two time steps each has been
\* returned: seven spans have ended.
C15_Witness ==
    /\ result # <<>>
    /\ Len(ds_slave.data_vars) = 2
    /\ ds_slave.ntime = 2
    /\ Len(spans) = 7
    /\ \A n \in 1..Len(spans) : spans[n].done = 1

\* C19: every progress span (dataset, variable, slice) is ended exactly
\* once on every exit path, also when the kernel raises: no span is ended
\* twice, no span is started twice, and none is open when coregister has
\* returned or raised.
C19_SpansEndedOnce ==
    /\ \A n \in 1..Len(spans) : spans[n].done <= 1
    /\ \A n \in 1..Len(spans) : \A m \in 1..Len(spans) :
          spans[n].id = spans[m].id => n = m
    /\ Terminal => \A n \in 1..Len(spans) : spans[n].done = 1
    /\ result # <<>> => spans # <<>>

\* C19 witness: the kernel raised on the first slice of the second variable;
\* the spans of the first variable ended normally and the three spans around
\* the failing call were ended by the exception.
C19_Witness ==
    /\ pc = "raised"
    /\ error.type = "KernelError"
    /\ error.args = <<2, 1>>
    /\ \A n \in 1..Len(spans) : spans[n].done = 1
    /\ \E n \in 1..Len(spans) : spans[n].id = <<2, 1>>

(***************************************************************************)
(* The errors of grid validation and the order of the checks.              *)
(***************************************************************************)
GridCheckKinds == {"bounds", "equidistant", "registered"}

\* C14 (as claimed): the error of a failing grid check identifies the
\* dataset, the axis and the check: no check on another dataset, axis or of
\* another kind raises the same error on the same datasets.
C14_ErrorIdentifiesGrid ==
    (pc = "raised" /\ error.kind \in GridCheckKinds) =>
        \A g \in 1..4 : \A k \in 1..3 :
            GridError(g, CheckName(k)) = error =>
                (g = grid_idx /\ CheckName(k) = checks[Len(checks)].check)

\* the grids in the claimed order: slave lat, slave lon, master lat, master lon
ClaimedGrids == <<<<"slave", ds_slave.lat, LatBounds[1]>>,
                  <<"slave", ds_slave.lon, LonBounds[1]>>,
                  <<"master", ds_master.lat, LatBounds[1]>>,
                  <<"master", ds_master.lon, LonBounds[1]>>>>

\* the claimed order of the checks of one grid
ClaimedKinds == <<"bounds", "equidistant", "registered">>

\* the outcome of check k on grid g of the claimed order
ClaimedCheck(g, k) ==
    LET array == ClaimedGrids[g][2]
        origin == ClaimedGrids[g][3]
    IN  IF k = 1 THEN within_bounds(array, origin)
        ELSE IF k = 2 THEN is_equidistant(array)
        ELSE is_pixel_registered(array, origin)

\* the positions, in the claimed order of twelve grid checks, of the checks
\* that fail on the datasets of the call
FailingPositions ==
    {3 * (g - 1) + k : g \in 1..4, k \in 1..3} \cap
    {n \in 1..12 : ~ClaimedCheck(((n - 1) \div 3) + 1, ((n - 1) % 3) + 1)}

\* the positions of the slave variables whose shape is not (time, lat, lon)
FailingVars ==
    {v \in 1..Len(ds_slave.data_vars) : ~HasTimeLatLon(ds_slave.data_vars[v].dims)}

Least(S) == CHOOSE n \in S : \A m \in S : n <= m

\* C20: the error reported follows a fixed order of checks: slave lat, slave
\* lon, master lat, master lon, and per grid bounds, equidistance, pixel
\* registration; slave variable shapes only after all four grids pass;
\* intersection errors only after all of these pass.  The first failing check
\* in this order is the one reported.
C20_FirstFailureReported ==
    Terminal =>
        IF FailingPositions # {}
        THEN LET n == Least(FailingPositions)
                 g == ((n - 1) \div 3) + 1
                 k == ((n - 1) % 3) + 1
             IN  /\ pc = "raised"
                 /\ error.type = "ValueError"
                 /\ error.kind = ClaimedKinds[k]
                 /\ error.who = ClaimedGrids[g][1]
                 /\ grid_idx = g
                 /\ Len(checks) = n
                 /\ \A m \in 1..(n - 1) : checks[m].ok
                 /\ ~checks[n].ok
        ELSE IF FailingVars # {}
        THEN LET v == Least(FailingVars)
             IN  /\ pc = "raised"
                 /\ error.kind = "shape"
                 /\ error.args = <<ds_slave.data_vars[v].name>>
                 /\ Len(checks) = 12 + v
                 /\ \A m \in 1..(11 + v) : checks[m].ok
        ELSE /\ error.kind \notin ValidationKinds
             /\ ChecksComplete
             /\ \A m \in 1..12 : checks[m].grid = ((m - 1) \div 3) + 1
                                 /\ checks[m].check = ClaimedKinds[((m - 1) % 3) + 1]

\* C20 witness: three or more grid checks fail on the datasets of the call,
\* among them one on the slave longitude and one on a master axis; the slave
\* longitude failure is reported.
C20_Witness ==
    /\ pc = "raised"
    /\ grid_idx = 2
    /\ Cardinality(FailingPositions) >= 3
    /\ \E n \in FailingPositions : n > 6

(***************************************************************************)
(* Descending axes.                                                        *)
(***************************************************************************)

\* axis[0] > axis[last]
Descending(array) == array[1] > array[Len(array)]

\* C21: a descending axis can pass _within_bounds, _is_equidistant and
\* _is_pixel_registered, but _find_intersection raises the intersection error
\* whenever one of its two axes is descending with a positive pixel size;
\* coregister never returns a dataset when the lat or lon axis of the master
\* or of the slave is descending.
C21_DescendingRaises ==
    /\ ValidGrid(<<60, 0, -60>>, LatBounds[1])
    /\ (FiReturned /\ \/ (Descending(fi.first) /\ PixelSize(fi.first) > 0)
                      \/ (Descending(fi.second) /\ PixelSize(fi.second) > 0)) =>
          ~fi.ret.ok
    /\ (InCoregister /\ \/ Descending(ds_master.lat) \/ Descending(ds_master.lon)
                        \/ Descending(ds_slave.lat) \/ Descending(ds_slave.lon)) =>
          /\ result = <<>>
          /\ kernel_calls = <<>>
          /\ Terminal => pc = "raised"
          /\ (Terminal /\ AllGridsPass /\ AllShapesPass) => error.kind = "intersection"

\* C21 witness: the four grids pass every check, the slave longitudes are
\* descending and the other axes ascending, and coregister raised the
\* intersection error.
C21_Witness ==
    /\ InCoregister
    /\ AllGridsPass
    /\ Descending(ds_slave.lon)
    /\ ~Descending(ds_slave.lat)
    /\ ~Descending(ds_master.lat)
    /\ ~Descending(ds_master.lon)
    /\ pc = "raised"
    /\ error.kind = "intersection"
    /\ error.who = "lon"

(***************************************************************************)
(* FileSetDataSource.resolve_paths (src/ect/core/io.py).                   *)
(*                                                                         *)
(* A time argument is [kind, day, hour]: kind "None" is None, "empty" the  *)
(* string '', "str" a string that spells the date of day in %Y-%m-%d,      *)
(* "badstr" a string that strptime does not accept, "datetime" a datetime  *)
(* on day at hour.  A datetime value is a record of kind "datetime"; None  *)
(* is NoTime.  Days are numbered from 2000-12-30.                          *)
(***************************************************************************)
Hours == {0, 12}

\* the calendar date <<year, month, day>> of day number n, n in 0..32
Date(n) == IF n <= 1 THEN <<2000, 12, 30 + n>> ELSE <<2001, 1, n - 1>>

\* datetime.strptime(dt, "%Y-%m-%d"): midnight of the date, or a ValueError
strptime(dt) ==
    IF dt.kind = "str"
    THEN [ok |-> TRUE, value |-> [kind |-> "datetime", day |-> dt.day, hour |-> 0]]
    ELSE [ok |-> FALSE, value |-> NoTime]

\* _as_datetime, lines 156-166
as_datetime(dt, default) ==
    IF dt.kind = "None"
    THEN [ok |-> TRUE, value |-> default]
    ELSE IF dt.kind \in {"empty", "str", "badstr"}
         THEN IF dt.kind = "empty"
              THEN [ok |-> TRUE, value |-> default]
              ELSE strptime(dt)
         ELSE IF dt.kind = "datetime"
              THEN [ok |-> TRUE, value |-> dt]
              ELSE [ok |-> FALSE, value |-> NoTime]

\* _resolve_date, lines 270-278: the pattern with the wildcards it holds
\* replaced by the year, month and day of dt; 0 stands for a wildcard that the
\* pattern does not hold
resolve_date(file_pattern, dt) ==
    LET date == Date(dt.day)
    IN  [YYYY |-> IF "{YYYY}" \in file_pattern THEN date[1] ELSE 0,
         MM |-> IF "{MM}" \in file_pattern THEN date[2] ELSE 0,
         DD |-> IF "{DD}" \in file_pattern THEN date[3] ELSE 0]

\* hours since day 0
HoursOf(dt) == 24 * dt.day + dt.hour

\* (dt2 - dt1).days for dt1 <= dt2
DeltaDays(dt1, dt2) == (HoursOf(dt2) - HoursOf(dt1)) \div 24

\* dt + timedelta(days=x)
AddDays(dt, x) == [dt EXCEPT !.day = @ + x]

RpRaise(type, line) == [type |-> type, line |-> line, paths |-> <<>>]

\* resolve_paths, lines 257-268
resolve_paths(self, first_time, last_time) ==
    LET info == self.fileset_info
    IN  IF first_time.kind = "None"
           /\ (~info.present \/ info.start_time.kind = "None")
        THEN RpRaise("ValueError", 258)
        ELSE IF ~info.present
        THEN RpRaise("AttributeError", 259)
        ELSE LET r1 == as_datetime(first_time, info.start_time)
             IN  IF ~r1.ok
                 THEN RpRaise("ValueError", 259)
                 ELSE IF last_time.kind = "None" /\ info.end_time.kind = "None"
                 THEN RpRaise("ValueError", 262)
                 ELSE LET r2 == as_datetime(last_time, info.end_time)
                          dt1 == r1.value
                          dt2 == r2.value
                      IN  IF ~r2.ok
                          THEN RpRaise("ValueError", 263)
                          ELSE IF dt1.kind = "None" \/ dt2.kind = "None"
                          THEN RpRaise("TypeError", 265)
                          ELSE IF HoursOf(dt1) > HoursOf(dt2)
                          THEN RpRaise("ValueError", 266)
                          ELSE [type |-> "None", line |-> 268,
                                paths |-> [x \in 1..(DeltaDays(dt1, dt2) + 1) |->
                                             resolve_date(self.file_pattern,
                                                          AddDays(dt1, x - 1))]]

(***************************************************************************)
(* SpecRP: one call of resolve_paths.                                      *)
(***************************************************************************)
Days == 0..MaxDay

\* the values of a time argument
TimeArgs ==
    {NoTime, [kind |-> "empty", day |-> 0, hour |-> 0],
     [kind |-> "badstr", day |-> 0, hour |-> 0]}
    \cup {[kind |-> "str", day |-> d, hour |-> 0] : d \in Days}
    \cup {[kind |-> "datetime", day |-> d, hour |-> h] : d \in Days, h \in Hours}

\* the values of FileSetInfo._start_time and ._end_time (lines 289-290)
InfoTimes == {NoTime} \cup {[kind |-> "datetime", day |-> d, hour |-> 0] : d \in Days}

\* the values of FileSetDataSource._fileset_info (line 192): None or an info
FileSetInfos ==
    {[present |-> FALSE, start_time |-> NoTime, end_time |-> NoTime]}
    \cup {[present |-> TRUE, start_time |-> st, end_time |-> et] :
            st \in InfoTimes, et \in InfoTimes}

FilePatterns == {{"{YYYY}", "{MM}", "{DD}"}, {"{YYYY}", "{MM}"}}

InitRP ==
    /\ pc = "resolve_paths"
    /\ \E info \in FileSetInfos, pattern \in FilePatterns,
          first_time \in TimeArgs, last_time \in TimeArgs :
         rp = [self |-> [fileset_info |-> info, file_pattern |-> pattern],
               first_time |-> first_time, last_time |-> last_time, done |-> FALSE,
               ret |-> [type |-> "None", line |-> 0, paths |-> <<>>]]
    /\ fi = FiIdle
    /\ gv = GvIdle
    /\ CoregisterIdle

ResolvePaths ==
    /\ pc = "resolve_paths"
    /\ LET ret == resolve_paths(rp.self, rp.first_time, rp.last_time)
       IN  /\ rp' = [rp EXCEPT !.done = TRUE, !.ret = ret]
           /\ pc' = IF ret.type = "None" THEN "returned" ELSE "raised"
    /\ UNCHANGED <<fi, gv, coregister_vars>>

NextRP == ResolvePaths

SpecRP == InitRP /\ [][NextRP]_vars

(***************************************************************************)
(* Claims about resolve_paths, checked under SpecRP.                       *)
(***************************************************************************)

\* the time the claim calls resolved: the argument when it spells or is a
\* time, the time of the file set otherwise (NoTime when there is none)
RpResolved(arg, info_time) ==
    IF arg.kind \in {"str", "datetime"}
    THEN [kind |-> "datetime", day |-> arg.day, hour |-> arg.hour]
    ELSE info_time

\* the start and end time of the file set, NoTime without a fileset_info
RpStartTime ==
    IF rp.self.fileset_info.present THEN rp.self.fileset_info.start_time ELSE NoTime

RpEndTime ==
    IF rp.self.fileset_info.present THEN rp.self.fileset_info.end_time ELSE NoTime

\* C22 (as claimed): resolve_paths raises ValueError, and no other kind of
\* error, in exactly three cases: first_time is None and the file set has no
\* start time; last_time is None and the file set has no end time; the
\* resolved start is after the resolved end.  In every other case, also with
\* both times given and no fileset_info, it returns one path per calendar day
\* from the start date to the end date inclusive, in chronological order.
C22_ThreeValueErrors ==
    rp.done =>
        LET start == RpResolved(rp.first_time, RpStartTime)
            end == RpResolved(rp.last_time, RpEndTime)
            no_start == rp.first_time.kind = "None" /\ RpStartTime.kind = "None"
            no_end == rp.last_time.kind = "None" /\ RpEndTime.kind = "None"
            start_after_end == /\ start.kind # "None"
                               /\ end.kind # "None"
                               /\ 24 * start.day + start.hour > 24 * end.day + end.hour
        IN  /\ rp.ret.type \in {"None", "ValueError"}
            /\ rp.ret.type = "ValueError" <=> (no_start \/ no_end \/ start_after_end)
            /\ rp.ret.type = "None" =>
                  rp.ret.paths = [k \in 1..(end.day - start.day + 1) |->
                                     resolve_date(rp.self.file_pattern,
                                                  [day |-> start.day + k - 1])]

====
